---- MODULE Spec2Model ----
(***************************************************************************)
(* Model of public/js/client.js: the browser-side controller that receives *)
(* streamed search results over a socket and renders them page by page.    *)
(*                                                                         *)
(* Every handler of the script runs to completion on the UI event loop, so *)
(* each handler is one action.  The page markup is not part of the script; *)
(* the model assumes the elements the script looks up by id (search form,  *)
(* input, button, two checkboxes, results, status, stats) exist and that   *)
(* no other element of the page carries the ids 'loader' or                *)
(* 'show-more-btn'.  Strings the script inspects character by character    *)
(* (the query, the result URLs) are sequences of one-character strings.    *)
(***************************************************************************)
EXTENDS Integers, Sequences, FiniteSets, TLC

VARIABLES
    connected,                  \* socket.connected
    disabled,                   \* searchButton.disabled
    status,                     \* statusElement: textContent and className
    stats,                      \* statsElement.innerHTML
    totalResults,
    videoResults,
    websiteResults,
    allResults,
    currentlyDisplayedResults,
    container,                  \* children of resultsContainer, in document order
    outbox,                     \* events handed to socket.emit, oldest first
    opened,                     \* URLs handed to window.open
    inputValue,                 \* searchInput.value
    videosChecked,              \* searchVideos.checked
    websitesChecked,            \* searchWebsites.checked
    session,                    \* history: idle, searching, completed, errored
    events,                     \* history: new_result events since the last search_started
    discarded                   \* history: results dropped by a search_started that
                                \* no result has followed yet

vars == <<connected, disabled, status, stats, totalResults, videoResults,
          websiteResults, allResults, currentlyDisplayedResults, container,
          outbox, opened, inputValue, videosChecked, websitesChecked,
          session, events, discarded>>

formVars == <<inputValue, videosChecked, websitesChecked>>
ghostVars == <<session, events, discarded>>
countVars == <<totalResults, videoResults, websiteResults>>

----------------------------------------------------------------------------
(* Bounds of the model *)

MaxEvents == 6          \* new_result events per session, specification Spec
MaxPageEvents == 11     \* new_result events per session, specification SpecPage
MaxCardEvents == 3      \* new_result events per session, specification SpecCard
MaxOutbox == 2          \* search_query events kept in the outbox
MaxClicks == 2          \* activations of one card's watch control
MaxFormEvents == 1      \* new_result events per session, specification SpecForm
MaxFrameEvents == 6     \* new_result events per session, specification SpecFrame
MaxEmbedEvents == 1     \* new_result events per session, specification SpecEmbed

resultsPerPage == 5

----------------------------------------------------------------------------
(* Generic helpers *)

Min(a, b) == IF a < b THEN a ELSE b

RECURSIVE Count(_, _)
\* Number of elements of the sequence s whose type is t.
Count(s, t) ==
    IF s = <<>> THEN 0
    ELSE (IF s[1].type = t THEN 1 ELSE 0) + Count(Tail(s), t)

----------------------------------------------------------------------------
(* Characters and String.prototype.trim *)

IsWhitespace(c) == c \in {" ", "\t", "\n"}

RECURSIVE TrimStart(_)
TrimStart(s) ==
    IF s # <<>> /\ IsWhitespace(s[1]) THEN TrimStart(Tail(s)) ELSE s

RECURSIVE TrimEnd(_)
TrimEnd(s) ==
    IF s # <<>> /\ IsWhitespace(s[Len(s)])
    THEN TrimEnd(SubSeq(s, 1, Len(s) - 1))
    ELSE s

Trim(s) == TrimEnd(TrimStart(s))

----------------------------------------------------------------------------
(* createVideoEmbed: the video-link resolver *)

UpperCase ==
    <<"A", "B", "C", "D", "E", "F", "G", "H", "I", "J", "K", "L", "M",
      "N", "O", "P", "Q", "R", "S", "T", "U", "V", "W", "X", "Y", "Z">>

LowerCase ==
    <<"a", "b", "c", "d", "e", "f", "g", "h", "i", "j", "k", "l", "m",
      "n", "o", "p", "q", "r", "s", "t", "u", "v", "w", "x", "y", "z">>

Digits ==
    <<"0", "1", "2", "3", "4", "5", "6", "7", "8", "9">>

Range(s) == {s[i] : i \in 1..Len(s)}

UpperLetters == Range(UpperCase)
LowerLetters == Range(LowerCase)
DigitChars == Range(Digits)

ToLower ==
    [c \in UpperLetters |->
        LowerCase[CHOOSE i \in 1..Len(UpperCase) : UpperCase[i] = c]]

\* The /i flag: letters are compared without regard to case.
Lower(c) == IF c \in UpperLetters THEN ToLower[c] ELSE c

\* The mandatory literal of each pattern.  Every pattern starts with the
\* optional groups (?:https?:\/\/)?(?:www\.)? and is not anchored, so the
\* groups never change whether the pattern matches nor what it captures: the
\* leftmost match is at the first occurrence of the literal that is followed
\* by a character of the capture class.
YoutubeWatch ==
    <<"y", "o", "u", "t", "u", "b", "e", ".", "c", "o", "m", "/",
      "w", "a", "t", "c", "h", "?", "v", "=">>

YoutubeEmbed ==
    <<"y", "o", "u", "t", "u", "b", "e", ".", "c", "o", "m", "/",
      "e", "m", "b", "e", "d", "/">>

YoutubeV ==
    <<"y", "o", "u", "t", "u", "b", "e", ".", "c", "o", "m", "/", "v", "/">>

YoutuBe ==
    <<"y", "o", "u", "t", "u", ".", "b", "e", "/">>

VimeoCom ==
    <<"v", "i", "m", "e", "o", ".", "c", "o", "m", "/">>

PlayerVimeo ==
    <<"p", "l", "a", "y", "e", "r", ".", "v", "i", "m", "e", "o", ".",
      "c", "o", "m", "/", "v", "i", "d", "e", "o", "/">>

DailymotionVideo ==
    <<"d", "a", "i", "l", "y", "m", "o", "t", "i", "o", "n", ".",
      "c", "o", "m", "/", "v", "i", "d", "e", "o", "/">>

DailymotionHub ==
    <<"d", "a", "i", "l", "y", "m", "o", "t", "i", "o", "n", ".",
      "c", "o", "m", "/", "h", "u", "b", "/">>

DaiLy ==
    <<"d", "a", "i", ".", "l", "y", "/">>

\* A pattern: the alternatives of its literal, in order, and its capture class.
youtubePatterns ==
    << [literals |-> <<YoutubeWatch>>, class |-> "[^&#]"],
       [literals |-> <<YoutubeEmbed>>, class |-> "[^?&#]"],
       [literals |-> <<YoutubeV>>, class |-> "[^?&#]"],
       [literals |-> <<YoutuBe>>, class |-> "[^?&#]"] >>

vimeoPatterns ==
    << [literals |-> <<VimeoCom>>, class |-> "\\d"],
       [literals |-> <<PlayerVimeo>>, class |-> "\\d"] >>

dailymotionPatterns ==
    << [literals |-> <<DailymotionVideo, DailymotionHub>>, class |-> "[a-zA-Z0-9]"],
       [literals |-> <<DaiLy>>, class |-> "[a-zA-Z0-9]"] >>

InClass(c, class) ==
    CASE class = "[^&#]" -> c \notin {"&", "#"}
      [] class = "[^?&#]" -> c \notin {"?", "&", "#"}
      [] class = "\\d" -> c \in DigitChars
      [] OTHER -> c \in DigitChars \/ c \in LowerLetters \/ c \in UpperLetters

\* The literal lit occurs in url at position p and a character of the capture
\* class follows it.
MatchesAt(url, p, lit, class) ==
    /\ p + Len(lit) <= Len(url)
    /\ \A k \in 1..Len(lit) : Lower(url[p + k - 1]) = lit[k]
    /\ InClass(url[p + Len(lit)], class)

RECURSIVE Run(_, _, _)
\* The longest run of characters of the class in url from position i on.
Run(url, i, class) ==
    IF i <= Len(url) /\ InClass(url[i], class)
    THEN <<url[i]>> \o Run(url, i + 1, class)
    ELSE <<>>

\* url.match(pattern)[1], or the empty sequence when the pattern does not match.
MatchGroup(url, pattern) ==
    LET lits == pattern.literals
        hits == {p \in 1..Len(url) :
                    \E k \in 1..Len(lits) : MatchesAt(url, p, lits[k], pattern.class)}
    IN  IF hits = {} THEN <<>>
        ELSE LET p == CHOOSE q \in hits : \A r \in hits : q <= r
                 k == CHOOSE j \in 1..Len(lits) :
                          /\ MatchesAt(url, p, lits[j], pattern.class)
                          /\ \A h \in 1..(j - 1) :
                                 ~MatchesAt(url, p, lits[h], pattern.class)
             IN  Run(url, p + Len(lits[k]), pattern.class)

RECURSIVE FirstMatch(_, _)
\* The capture of the first pattern of the list that matches url.
FirstMatch(url, patterns) ==
    IF patterns = <<>> THEN <<>>
    ELSE LET m == MatchGroup(url, patterns[1])
         IN  IF m # <<>> THEN m ELSE FirstMatch(url, Tail(patterns))

EmptyString == [kind |-> "string", provider |-> "", id |-> <<>>]
Null == [kind |-> "null", provider |-> "", id |-> <<>>]
Iframe(provider, id) == [kind |-> "iframe", provider |-> provider, id |-> id]

\* Mutant: the Vimeo patterns are tried before the YouTube patterns.
createVideoEmbedVimeoFirst(url) ==
    IF url = <<>> THEN EmptyString
    ELSE IF FirstMatch(url, vimeoPatterns) # <<>>
         THEN Iframe("vimeo", FirstMatch(url, vimeoPatterns))
    ELSE IF FirstMatch(url, youtubePatterns) # <<>>
         THEN Iframe("youtube", FirstMatch(url, youtubePatterns))
    ELSE IF FirstMatch(url, dailymotionPatterns) # <<>>
         THEN Iframe("dailymotion", FirstMatch(url, dailymotionPatterns))
    ELSE Null

createVideoEmbed(url) ==
    IF url = <<>> THEN EmptyString
    ELSE IF FirstMatch(url, youtubePatterns) # <<>>
         THEN Iframe("youtube", FirstMatch(url, youtubePatterns))
    ELSE IF FirstMatch(url, vimeoPatterns) # <<>>
         THEN Iframe("vimeo", FirstMatch(url, vimeoPatterns))
    ELSE IF FirstMatch(url, dailymotionPatterns) # <<>>
         THEN Iframe("dailymotion", FirstMatch(url, dailymotionPatterns))
    ELSE Null

\* JavaScript truthiness of what createVideoEmbed returns.
Truthy(embedHtml) == embedHtml.kind = "iframe"

----------------------------------------------------------------------------
(* The nodes of the results area *)

\* The loader built by showLoadingIndicator.
Loader == [className |-> "loader", id |-> "loader"]

WatchNow == "<i class=\"fas fa-play\"></i> Watch Now"

\* innerHTML of a card's video container.
NoHtml == [kind |-> "", embed |-> Null]
EmbedHtml(embedHtml) == [kind |-> "embed+close-button", embed |-> embedHtml]
ErrorHtml == [kind |-> "error", embed |-> Null]

\* The card built for one result: its video container starts hidden and empty;
\* a video result gets a watch button (watchButton is its innerHTML, "" when
\* the card has none).  clicks is history: the activations of the card's watch
\* control since the card was built.
createResultElement(result) ==
    [className |-> "result", id |-> "", result |-> result,
     display |-> "none", innerHTML |-> NoHtml,
     watchButton |-> IF result.type = "video" THEN WatchNow ELSE "",
     clicks |-> 0]

\* handleWatchClick on a card: the embed and a close button, revealed, or the
\* cannot-be-embedded message.
handleWatchClick(card, url) ==
    LET embedHtml == createVideoEmbed(url)
    IN  IF Truthy(embedHtml)
        THEN [card EXCEPT !.innerHTML = EmbedHtml(embedHtml), !.display = "block"]
        ELSE [card EXCEPT !.innerHTML = ErrorHtml]

\* watchButton.onclick on a card.
watchButtonOnclick(card) ==
    IF card.display = "none"
    THEN handleWatchClick(card, card.result.url)
    ELSE [card EXCEPT !.display = "none", !.innerHTML = NoHtml,
                      !.watchButton = WatchNow]

ShowMoreButton(remaining) ==
    [className |-> "show-more-button", id |-> "show-more-btn",
     textContent |-> "Show More (" \o ToString(remaining) \o " more results)"]

RECURSIVE RemoveById(_, _)
\* document.getElementById(id) followed by remove(): the first node with the id
\* leaves the sequence.
RemoveById(nodes, id) ==
    IF nodes = <<>> THEN <<>>
    ELSE IF nodes[1].id = id THEN Tail(nodes)
    ELSE <<nodes[1]>> \o RemoveById(Tail(nodes), id)

\* Mutant: the loader is looked up under an id no node carries.
hideLoadingIndicatorWrongId(nodes) == RemoveById(nodes, "loading")

hideLoadingIndicator(nodes) == RemoveById(nodes, "loader")

showLoadingIndicator(nodes) == <<Loader>> \o nodes

----------------------------------------------------------------------------
(* The paginated renderer *)

RECURSIVE AppendCardsOffByOne(_, _, _, _)
\* Mutant: the loop stops one result early (i + 1 < endIndex).
AppendCardsOffByOne(nodes, results, i, endIndex) ==
    IF i + 1 < endIndex
    THEN AppendCardsOffByOne(Append(nodes, createResultElement(results[i + 1])),
                             results, i + 1, endIndex)
    ELSE nodes

RECURSIVE AppendCardsPrepending(_, _, _, _)
\* Mutant: each card is inserted before the nodes already in the results area.
AppendCardsPrepending(nodes, results, i, endIndex) ==
    IF i < endIndex
    THEN AppendCardsPrepending(<<createResultElement(results[i + 1])>> \o nodes,
                               results, i + 1, endIndex)
    ELSE nodes

RECURSIVE AppendCards(_, _, _, _)
\* The loop of showMoreResults: for (i = from; i < endIndex; i++), 0-based.
AppendCards(nodes, results, i, endIndex) ==
    IF i < endIndex
    THEN AppendCards(Append(nodes, createResultElement(results[i + 1])),
                     results, i + 1, endIndex)
    ELSE nodes

\* Mutant: the cursor advances by a whole page, not to endIndex.
showMoreResultsOvershoot(nodes, results, displayed) ==
    LET endIndex == Min(displayed + resultsPerPage, Len(results))
        withCards == AppendCards(nodes, results, displayed, endIndex)
        withoutButton == RemoveById(withCards, "show-more-btn")
    IN  [container |->
            IF endIndex < Len(results)
            THEN Append(withoutButton, ShowMoreButton(Len(results) - endIndex))
            ELSE withoutButton,
         currentlyDisplayedResults |-> displayed + resultsPerPage]

\* Mutant: the existing show-more button is not removed.
showMoreResultsKeepButton(nodes, results, displayed) ==
    LET endIndex == Min(displayed + resultsPerPage, Len(results))
        withCards == AppendCards(nodes, results, displayed, endIndex)
    IN  [container |->
            IF endIndex < Len(results)
            THEN Append(withCards, ShowMoreButton(Len(results) - endIndex))
            ELSE withCards,
         currentlyDisplayedResults |-> endIndex]

\* Mutant: the show-more button is added whether or not results remain.
showMoreResultsAlwaysButton(nodes, results, displayed) ==
    LET endIndex == Min(displayed + resultsPerPage, Len(results))
        withCards == AppendCards(nodes, results, displayed, endIndex)
        withoutButton == RemoveById(withCards, "show-more-btn")
    IN  [container |->
            Append(withoutButton, ShowMoreButton(Len(results) - endIndex)),
         currentlyDisplayedResults |-> endIndex]

\* showMoreResults on the results area nodes, the accumulator results and the
\* reveal cursor displayed: the new nodes and the new cursor.
showMoreResults(nodes, results, displayed) ==
    LET endIndex == Min(displayed + resultsPerPage, Len(results))
        withCards == AppendCards(nodes, results, displayed, endIndex)
        withoutButton == RemoveById(withCards, "show-more-btn")
    IN  [container |->
            IF endIndex < Len(results)
            THEN Append(withoutButton, ShowMoreButton(Len(results) - endIndex))
            ELSE withoutButton,
         currentlyDisplayedResults |-> endIndex]

\* displayResults(results): empties the results area, rewinds the cursor and
\* shows the first batch.
displayResults(results) == showMoreResults(<<>>, results, 0)

----------------------------------------------------------------------------
(* Status and stats lines *)

Status(message, type) == [textContent |-> message, className |-> "status status-" \o type]

NoStats == <<>>

\* updateSearchStats: a query of "" stands for data.query being absent or empty,
\* for which no query item is rendered.
SearchStats(total, videos, websites, query) ==
    << [total |-> total, videos |-> videos, websites |-> websites, query |-> query] >>

NoEvents == [total |-> 0, withResult |-> 0, video |-> 0, website |-> 0]

----------------------------------------------------------------------------
(* Inputs *)

UrlYoutube ==
    <<"h", "t", "t", "p", "s", ":", "/", "/", "w", "w", "w", ".">>
        \o YoutubeWatch \o <<"a", "B", "1">>

UrlArticle ==
    <<"h", "t", "t", "p", "s", ":", "/", "/", "e", "x", "a", "m", "p", "l", "e",
      ".", "c", "o", "m", "/", "n", "e", "w", "s">>

Result(type, url) == [type |-> type, url |-> url]

\* data.result absent from a new_result event.
NoResult == [type |-> "", url |-> <<>>, absent |-> TRUE]

\* Mutant: only events that name the query "cats" are taken to carry a result.
HasResultForCats(data) == data.result # NoResult /\ data.query = "cats"

HasResult(data) == data.result # NoResult

Queries == {"cats", "dogs"}

\* Results of the session specification: both categories, a type that is
\* neither, and an event without a result.
SessionResults ==
    { Result("video", UrlYoutube), Result("website", UrlArticle),
      Result("image", UrlArticle), NoResult }

StartedData == { [message |-> "Searching for cats..."] }

CompletedData ==
    { [total |-> 0, videos |-> 0, websites |-> 0],
      [total |-> 2, videos |-> 1, websites |-> 1] }

ErrorData == { [error |-> "timeout"] }

----------------------------------------------------------------------------
(* Initial state: the script has run, the socket is not yet connected *)

Init ==
    /\ connected = FALSE
    /\ disabled \in BOOLEAN          \* set by the page markup
    /\ status = Status("Ready to search", "info")
    /\ stats = NoStats
    /\ totalResults = 0
    /\ videoResults = 0
    /\ websiteResults = 0
    /\ allResults = <<>>
    /\ currentlyDisplayedResults = 0
    /\ container = <<>>
    /\ outbox = <<>>
    /\ opened = {}
    /\ inputValue = <<>>
    /\ videosChecked = TRUE
    /\ websitesChecked = TRUE
    /\ session = "idle"
    /\ events = NoEvents
    /\ discarded = 0

----------------------------------------------------------------------------
(* Socket event handlers *)

\* socket.on('connect')
Connect ==
    /\ ~connected
    /\ connected' = TRUE
    /\ status' = Status("Connected to server", "success")
    /\ disabled' = FALSE
    /\ UNCHANGED <<stats, countVars, allResults, currentlyDisplayedResults,
                   container, outbox, opened, formVars, ghostVars>>

\* Mutant: the disconnect handler enables the submit control.
DisconnectEnables ==
    /\ connected
    /\ connected' = FALSE
    /\ status' = Status("Disconnected from server", "error")
    /\ disabled' = FALSE
    /\ UNCHANGED <<stats, countVars, allResults, currentlyDisplayedResults,
                   container, outbox, opened, formVars, ghostVars>>

\* socket.on('disconnect')
Disconnect ==
    /\ connected
    /\ connected' = FALSE
    /\ status' = Status("Disconnected from server", "error")
    /\ disabled' = TRUE
    /\ UNCHANGED <<stats, countVars, allResults, currentlyDisplayedResults,
                   container, outbox, opened, formVars, ghostVars>>

\* Mutant: clearResults forgets the accumulator and the cursor.
clearResultsKeepsAccumulator ==
    [container |-> <<>>, stats |-> NoStats,
     totalResults |-> 0, videoResults |-> 0, websiteResults |-> 0,
     allResults |-> allResults,
     currentlyDisplayedResults |-> currentlyDisplayedResults]

\* clearResults: what it leaves in the results area, the stats line, the
\* counters, the accumulator and the cursor.
clearResults ==
    [container |-> <<>>, stats |-> NoStats,
     totalResults |-> 0, videoResults |-> 0, websiteResults |-> 0,
     allResults |-> <<>>, currentlyDisplayedResults |-> 0]

\* socket.on('search_started'): updateStatus, clearResults,
\* showLoadingIndicator, disable the button, zero the counters.
SearchStarted(data) ==
    /\ connected
    /\ status' = Status(data.message, "info")
    /\ container' = showLoadingIndicator(clearResults.container)
    /\ stats' = clearResults.stats
    /\ totalResults' = 0
    /\ videoResults' = 0
    /\ websiteResults' = 0
    /\ allResults' = clearResults.allResults
    /\ currentlyDisplayedResults' = clearResults.currentlyDisplayedResults
    /\ disabled' = TRUE
    /\ session' = "searching"
    /\ events' = NoEvents
    /\ discarded' = Len(allResults)
    /\ UNCHANGED <<connected, outbox, opened, formVars>>

\* The type-specific counters after a result is counted.
\* Mutant: every result counts as a video.
NextVideoResultsAlways(result) == videoResults + 1

NextVideoResults(result) ==
    IF result.type = "video" THEN videoResults + 1 ELSE videoResults

\* Mutant: every result that is not a video counts as a website.
NextWebsiteResultsAnyOther(result) ==
    IF result.type = "video" THEN websiteResults ELSE websiteResults + 1

NextWebsiteResults(result) ==
    IF result.type = "video" THEN websiteResults
    ELSE IF result.type = "website" THEN websiteResults + 1
    ELSE websiteResults

\* Mutant: the result is inserted at the front of the accumulator.
pushFront(results, result) == <<result>> \o results

push(results, result) == Append(results, result)

\* socket.on('new_result')
NewResult(data) ==
    /\ connected
    /\ events' = [total |-> events.total + 1,
                  withResult |-> events.withResult + (IF HasResult(data) THEN 1 ELSE 0),
                  video |-> events.video
                      + (IF HasResult(data) /\ data.result.type = "video" THEN 1 ELSE 0),
                  website |-> events.website
                      + (IF HasResult(data) /\ data.result.type = "website" THEN 1 ELSE 0)]
    /\ IF HasResult(data)
       THEN LET total == totalResults + 1
                videos == NextVideoResults(data.result)
                websites == NextWebsiteResults(data.result)
                pushed == push(allResults, data.result)
                shown == IF Len(pushed) > currentlyDisplayedResults
                         THEN displayResults(pushed)
                         ELSE [container |-> container,
                               currentlyDisplayedResults |-> currentlyDisplayedResults]
            IN  /\ totalResults' = total
                /\ videoResults' = videos
                /\ websiteResults' = websites
                /\ allResults' = pushed
                /\ container' = shown.container
                /\ currentlyDisplayedResults' = shown.currentlyDisplayedResults
                /\ stats' = SearchStats(total, videos, websites, data.query)
                /\ discarded' = 0
       ELSE UNCHANGED <<countVars, allResults, container,
                        currentlyDisplayedResults, stats, discarded>>
    /\ UNCHANGED <<connected, disabled, status, outbox, opened, formVars, session>>

\* socket.on('search_completed')
\* Mutant: search_completed adopts the server's totals as the counters.
SearchCompletedAdoptsTotals(data) ==
    /\ connected
    /\ container' = hideLoadingIndicator(container)
    /\ status' = Status("Search completed. Found " \o ToString(data.total)
                            \o " results.", "success")
    /\ stats' = SearchStats(data.total, data.videos, data.websites, "")
    /\ disabled' = FALSE
    /\ session' = "completed"
    /\ totalResults' = data.total
    /\ videoResults' = data.videos
    /\ websiteResults' = data.websites
    /\ UNCHANGED <<connected, allResults, currentlyDisplayedResults,
                   outbox, opened, formVars, events, discarded>>

SearchCompleted(data) ==
    /\ connected
    /\ container' = hideLoadingIndicator(container)
    /\ status' = Status("Search completed. Found " \o ToString(data.total)
                            \o " results.", "success")
    /\ stats' = SearchStats(data.total, data.videos, data.websites, "")
    /\ disabled' = FALSE
    /\ session' = "completed"
    /\ UNCHANGED <<connected, countVars, allResults, currentlyDisplayedResults,
                   outbox, opened, formVars, events, discarded>>

\* socket.on('search_error')
SearchError(data) ==
    /\ connected
    /\ container' = hideLoadingIndicator(container)
    /\ status' = Status("Error: " \o data.error, "error")
    /\ disabled' = FALSE
    /\ session' = "errored"
    /\ UNCHANGED <<connected, stats, countVars, allResults,
                   currentlyDisplayedResults, outbox, opened, formVars, events,
                   discarded>>

\* One invocation of showMoreResults: the onclick of the show-more button, or
\* a direct call of the global function.
ShowMore ==
    LET shown == showMoreResults(container, allResults, currentlyDisplayedResults)
    IN  /\ container' = shown.container
        /\ currentlyDisplayedResults' = shown.currentlyDisplayedResults
        /\ UNCHANGED <<connected, disabled, status, stats, countVars, allResults,
                       outbox, opened, formVars, ghostVars>>

----------------------------------------------------------------------------
(* Specification of the session: every socket event, with results of every  *)
(* kind, and the show-more invocation.                                      *)

SessionNewResult ==
    \E r \in SessionResults, q \in Queries :
        /\ events.total < MaxEvents
        /\ NewResult([result |-> r, query |-> q])

SessionSearchStarted == \E data \in StartedData : SearchStarted(data)

SessionSearchCompleted == \E data \in CompletedData : SearchCompleted(data)

SessionSearchError == \E data \in ErrorData : SearchError(data)

Next ==
    \/ Connect
    \/ Disconnect
    \/ SessionSearchStarted
    \/ SessionNewResult
    \/ SessionSearchCompleted
    \/ SessionSearchError
    \/ ShowMore

Spec == Init /\ [][Next]_vars

----------------------------------------------------------------------------
(* Specification of the paginated renderer: long sessions of results of the *)
(* two categories, every socket event and the show-more invocation.         *)

PageResults == { Result("video", UrlYoutube), Result("website", UrlArticle) }

PageNewResult ==
    \E r \in PageResults :
        /\ events.total < MaxPageEvents
        /\ NewResult([result |-> r, query |-> "cats"])

PageSearchCompleted ==
    SearchCompleted([total |-> totalResults, videos |-> videoResults,
                     websites |-> websiteResults])

NextPage ==
    \/ Connect
    \/ Disconnect
    \/ SessionSearchStarted
    \/ PageNewResult
    \/ PageSearchCompleted
    \/ SessionSearchError
    \/ ShowMore

SpecPage == Init /\ [][NextPage]_vars

----------------------------------------------------------------------------
(* The search form *)

EmptyQueryMessage == "Please enter a search query"
NotConnectedMessage == "Not connected to server. Please wait..."
NoSearchTypeMessage == "Please select at least one search type (Videos or Websites)"

SearchQuery(query, videos, websites) ==
    [event |-> "search_query", query |-> query,
     searchTypes |-> [videos |-> videos, websites |-> websites]]

Rejected(message) ==
    [emit |-> FALSE, message |-> message, payload |-> SearchQuery(<<>>, FALSE, FALSE)]

\* Mutant: the query is used as typed, not trimmed.
SubmitOutcomeUntrimmed(value, isConnected, videos, websites) ==
    IF value = <<>> THEN Rejected(EmptyQueryMessage)
    ELSE IF ~isConnected THEN Rejected(NotConnectedMessage)
    ELSE IF ~videos /\ ~websites THEN Rejected(NoSearchTypeMessage)
    ELSE [emit |-> TRUE, message |-> "",
          payload |-> SearchQuery(value, videos, websites)]

\* Mutant: the search-type guard is missing.
SubmitOutcomeNoTypeGuard(value, isConnected, videos, websites) ==
    LET query == Trim(value)
    IN  IF query = <<>> THEN Rejected(EmptyQueryMessage)
        ELSE IF ~isConnected THEN Rejected(NotConnectedMessage)
        ELSE [emit |-> TRUE, message |-> "",
              payload |-> SearchQuery(query, videos, websites)]

\* Mutant: the connection guard comes before the empty-query guard.
SubmitOutcomeConnectionFirst(value, isConnected, videos, websites) ==
    LET query == Trim(value)
    IN  IF ~isConnected THEN Rejected(NotConnectedMessage)
        ELSE IF query = <<>> THEN Rejected(EmptyQueryMessage)
        ELSE IF ~videos /\ ~websites THEN Rejected(NoSearchTypeMessage)
        ELSE [emit |-> TRUE, message |-> "",
              payload |-> SearchQuery(query, videos, websites)]

\* The submit listener as a function of what it reads: the input's value,
\* socket.connected and the two checkboxes.  Either the message of the guard
\* that rejects the submission, or the event to emit.
SubmitOutcome(value, isConnected, videos, websites) ==
    LET query == Trim(value)
    IN  IF query = <<>> THEN Rejected(EmptyQueryMessage)
        ELSE IF ~isConnected THEN Rejected(NotConnectedMessage)
        ELSE IF ~videos /\ ~websites THEN Rejected(NoSearchTypeMessage)
        ELSE [emit |-> TRUE, message |-> "",
              payload |-> SearchQuery(query, videos, websites)]

\* searchForm 'submit' listener
Submit ==
    LET outcome == SubmitOutcome(inputValue, connected, videosChecked, websitesChecked)
    IN  /\ Len(outbox) < MaxOutbox
        /\ IF outcome.emit
           THEN /\ outbox' = Append(outbox, outcome.payload)
                /\ UNCHANGED status
           ELSE /\ status' = Status(outcome.message, "error")
                /\ UNCHANGED outbox
        /\ UNCHANGED <<connected, disabled, stats, countVars, allResults,
                       currentlyDisplayedResults, container, opened, formVars,
                       ghostVars>>

\* The user edits the query or ticks a checkbox: the browser updates the
\* form controls, no code of the script runs.
TypeQuery(value) ==
    /\ inputValue' = value
    /\ UNCHANGED <<connected, disabled, status, stats, countVars, allResults,
                   currentlyDisplayedResults, container, outbox, opened,
                   videosChecked, websitesChecked, ghostVars>>

ToggleVideos ==
    /\ videosChecked' = ~videosChecked
    /\ UNCHANGED <<connected, disabled, status, stats, countVars, allResults,
                   currentlyDisplayedResults, container, outbox, opened,
                   inputValue, websitesChecked, ghostVars>>

ToggleWebsites ==
    /\ websitesChecked' = ~websitesChecked
    /\ UNCHANGED <<connected, disabled, status, stats, countVars, allResults,
                   currentlyDisplayedResults, container, outbox, opened,
                   inputValue, videosChecked, ghostVars>>

QueryValues ==
    { <<>>, <<" ">>, <<"a">>, <<" ", "a", "\t">>, <<"a", " ", "b">> }

FormTypeQuery == \E value \in QueryValues : TypeQuery(value)

FormNewResult ==
    /\ events.total < MaxFormEvents
    /\ NewResult([result |-> Result("video", UrlYoutube), query |-> "cats"])

NextForm ==
    \/ Connect
    \/ Disconnect
    \/ FormTypeQuery
    \/ ToggleVideos
    \/ ToggleWebsites
    \/ Submit
    \/ SessionSearchStarted
    \/ FormNewResult
    \/ SessionSearchError

SpecForm == Init /\ [][NextForm]_vars

----------------------------------------------------------------------------
(* The watch control of a video card *)

\* The user activates the watch control of the i-th node of the results area;
\* confirmed is the user's answer to the confirm() dialog, should one open.
WatchClick(i, confirmed) ==
    /\ i \in DOMAIN container
    /\ container[i].className = "result"
    /\ container[i].watchButton # ""
    /\ container[i].clicks < MaxClicks
    /\ container' = [container EXCEPT
                        ![i] = [watchButtonOnclick(@) EXCEPT !.clicks = @ + 1]]
    /\ opened' = IF /\ container[i].display = "none"
                    /\ ~Truthy(createVideoEmbed(container[i].result.url))
                    /\ confirmed
                 THEN opened \cup {container[i].result.url}
                 ELSE opened
    /\ UNCHANGED <<connected, disabled, status, stats, countVars, allResults,
                   currentlyDisplayedResults, outbox, formVars, ghostVars>>

\* Results of the card specification: an embeddable video, a video that no
\* provider pattern matches, and a website.
CardResults ==
    { Result("video", UrlYoutube), Result("video", UrlArticle),
      Result("website", UrlArticle) }

CardNewResult ==
    \E r \in CardResults :
        /\ events.total < MaxCardEvents
        /\ NewResult([result |-> r, query |-> "cats"])

CardWatchClick ==
    \E i \in 1..(MaxCardEvents + 1), confirmed \in BOOLEAN : WatchClick(i, confirmed)

NextCard ==
    \/ Connect
    \/ SessionSearchStarted
    \/ CardNewResult
    \/ CardWatchClick

SpecCard == Init /\ [][NextCard]_vars

----------------------------------------------------------------------------
(* Specification of the video-link resolver: video results whose URLs cover *)
(* every pattern, with and without scheme and www., URLs that several       *)
(* patterns or several families match, and URLs that none matches; the      *)
(* watch control resolves them.                                             *)

HttpsScheme == <<"h", "t", "t", "p", "s", ":", "/", "/">>
WwwPrefix == <<"w", "w", "w", ".">>

UrlPrefixes == { <<>>, HttpsScheme, HttpsScheme \o WwwPrefix }

UrlBodies ==
    { YoutubeWatch \o <<"a", "B", "1">>,
      YoutubeWatch \o <<"a", "&", "t", "=", "1">>,
      YoutubeWatch \o <<"&", "t", "=", "1">>,
      <<"Y", "o", "u", "T", "u", "b", "e", ".", "c", "o", "m", "/",
        "w", "a", "t", "c", "h", "?", "v", "=", "Q">>,
      YoutubeEmbed \o <<"x", "1", "?", "r", "=", "0">>,
      YoutubeV \o <<"x">>,
      YoutuBe \o <<"q", "#", "t">>,
      VimeoCom \o <<"7", "6">>,
      VimeoCom \o <<"c", "h", "a", "n", "n", "e", "l", "s">>,
      PlayerVimeo \o <<"5">>,
      DailymotionVideo \o <<"x", "7", "_", "t">>,
      DailymotionHub \o <<"h", "1">>,
      DaiLy \o <<"k", "2">>,
      <<"e", "x", "a", "m", "p", "l", "e", ".", "c", "o", "m", "/", "n", "e", "w", "s">>,
      VimeoCom \o <<"1", "2", "?", "u", "=">> \o YoutuBe \o <<"z">>,
      YoutuBe \o <<"b", "?", "f", "=">> \o YoutubeWatch \o <<"a">>,
      DaiLy \o <<"k", "/">> \o VimeoCom \o <<"9">> }

EmbedUrls == { prefix \o body : prefix \in UrlPrefixes, body \in UrlBodies } \cup { <<>> }

EmbedNewResult ==
    \E url \in EmbedUrls :
        /\ events.total < MaxEmbedEvents
        /\ NewResult([result |-> Result("video", url), query |-> "cats"])

EmbedWatchClick ==
    \E i \in 1..(MaxEmbedEvents + 1), confirmed \in BOOLEAN : WatchClick(i, confirmed)

NextEmbed ==
    \/ Connect
    \/ EmbedNewResult
    \/ EmbedWatchClick

SpecEmbed == Init /\ [][NextEmbed]_vars

----------------------------------------------------------------------------
(* Specification of the frame of the handlers: every socket event, the      *)
(* show-more invocation and the watch control of the first two cards, over  *)
(* embeddable video results, enough of them for a second page.              *)

FrameNewResult ==
    /\ events.total < MaxFrameEvents
    /\ NewResult([result |-> Result("video", UrlYoutube), query |-> "cats"])

FrameWatchClick ==
    \E i \in 1..2, confirmed \in BOOLEAN : WatchClick(i, confirmed)

NextFrame ==
    \/ Connect
    \/ Disconnect
    \/ SessionSearchStarted
    \/ FrameNewResult
    \/ SessionSearchCompleted
    \/ SessionSearchError
    \/ ShowMore
    \/ FrameWatchClick

SpecFrame == Init /\ [][NextFrame]_vars

----------------------------------------------------------------------------
(* Properties *)

\* The result cards of the results area, in document order.
Cards(nodes) == SelectSeq(nodes, LAMBDA node : node.className = "result")

\* The show-more affordances of the results area.
ShowMoreButtons(nodes) == SelectSeq(nodes, LAMBDA node : node.id = "show-more-btn")

\* C1: between two consecutive search_started events the reveal cursor
\* currentlyDisplayedResults never decreases from one state to the next,
\* whatever new_result events and show-more invocations interleave.
C1_RevealCursorMonotonic ==
    [][ (~SessionSearchStarted)
            => currentlyDisplayedResults' >= currentlyDisplayedResults ]_vars

\* C2 as stated: after a search_started, the accumulator length and
\* totalResults equal the number of new_result events received since, and the
\* category counters equal the number of those events whose result has the
\* category's type.
C2_CountersMatchEventsReceived ==
    session # "idle" =>
        /\ Len(allResults) = events.total
        /\ totalResults = events.total
        /\ videoResults = events.video
        /\ websiteResults = events.website

\* C2 amended: after a search_started, the accumulator length and totalResults
\* equal the number of new_result events received since that carry a result
\* (an event without result is ignored), videoResults the number of those
\* whose result.type is 'video', websiteResults the number whose result.type
\* is 'website'.
C2_CountersMatchEventsWithResult ==
    session # "idle" =>
        /\ Len(allResults) = events.withResult
        /\ totalResults = events.withResult
        /\ videoResults = events.video
        /\ websiteResults = events.website

C2_Witness ==
    /\ session = "searching"
    /\ events.total >= 4
    /\ events.withResult < events.total
    /\ events.video >= 1
    /\ events.website >= 1
    /\ events.withResult > events.video + events.website

\* C3: a form submission emits search_query if and only if the trimmed query
\* is non-empty, the channel is connected and at least one category checkbox
\* is checked; then exactly one event is sent, carrying the trimmed query and
\* the two checkbox values; otherwise no event is sent.  Nothing but a
\* submission that passes the guards adds to the emitted events.
C3_SearchQueryEmittedIffGuardsPass ==
    [][ LET query == Trim(inputValue)
            pass == /\ query # <<>>
                    /\ connected
                    /\ (videosChecked \/ websitesChecked)
        IN  /\ Submit =>
                IF pass
                THEN outbox' = Append(outbox,
                                  SearchQuery(query, videosChecked, websitesChecked))
                ELSE outbox' = outbox
            /\ outbox' # outbox => Submit /\ pass ]_vars

C3_Witness ==
    /\ Len(outbox) = 1
    /\ inputValue = <<" ", "a", "\t">>
    /\ outbox[1].query = <<"a">>
    /\ videosChecked /\ ~websitesChecked
    /\ outbox[1].searchTypes = [videos |-> TRUE, websites |-> FALSE]

\* C4: for every video card, embeddable or not, two successive activations of
\* its watch control from the initial collapsed state leave the embed container
\* empty and hidden and the control labelled 'Watch Now'.
C4_ToggleTwiceRestoresCard ==
    \A i \in DOMAIN container :
        (/\ container[i].className = "result"
         /\ container[i].watchButton # ""
         /\ container[i].clicks = 2)
            => /\ container[i].display = "none"
               /\ container[i].innerHTML = NoHtml
               /\ container[i].watchButton = WatchNow

\* C5: one invocation of showMoreResults with d = currentlyDisplayedResults and
\* n = allResults.length appends exactly min(5, n - d) result cards, those of
\* allResults[d .. d + min(5, n - d) - 1] in arrival order, and sets the cursor
\* to d + min(5, n - d).
C5_ShowMoreRevealsNextPage ==
    [][ ShowMore =>
            LET d == currentlyDisplayedResults
                n == Len(allResults)
                m == Min(5, n - d)
            IN  /\ currentlyDisplayedResults' = d + m
                /\ Cards(container') =
                       Cards(container)
                           \o [i \in 1..m |-> createResultElement(allResults[d + i])] ]_vars

C5_Witness ==
    /\ currentlyDisplayedResults = 10
    /\ Len(allResults) = 11
    /\ Len(Cards(container)) = 10

\* C6: in every reachable state currentlyDisplayedResults lies between 0 and
\* allResults.length inclusive.
C6_CursorWithinAccumulator ==
    /\ 0 <= currentlyDisplayedResults
    /\ currentlyDisplayedResults <= Len(allResults)

C6_Witness ==
    /\ Len(allResults) = 7
    /\ currentlyDisplayedResults = Len(allResults)

\* C7: from any reachable state, handling search_started leaves the three
\* counters at 0, allResults empty, the cursor at 0 and the results area
\* without result card and without show-more affordance.
C7_SearchStartedResets ==
    [][ SessionSearchStarted =>
            /\ totalResults' = 0
            /\ videoResults' = 0
            /\ websiteResults' = 0
            /\ allResults' = <<>>
            /\ currentlyDisplayedResults' = 0
            /\ Cards(container') = <<>>
            /\ ShowMoreButtons(container') = <<>> ]_vars

C7_Witness ==
    /\ discarded >= 6
    /\ session = "searching"
    /\ allResults = <<>>
    /\ totalResults = 0
    /\ container = <<Loader>>

\* C8: in every reachable state the results area holds at most one show-more
\* affordance; it is present exactly when currentlyDisplayedResults <
\* allResults.length, and its label then shows the remaining count.
C8_SingleShowMoreAffordance ==
    LET buttons == ShowMoreButtons(container)
        remaining == Len(allResults) - currentlyDisplayedResults
    IN  /\ Len(buttons) <= 1
        /\ (Len(buttons) = 1) <=> (currentlyDisplayedResults < Len(allResults))
        /\ Len(buttons) = 1 =>
               buttons[1].textContent =
                   "Show More (" \o ToString(remaining) \o " more results)"

C8_Witness ==
    /\ currentlyDisplayedResults = 10
    /\ ShowMoreButtons(container) = <<ShowMoreButton(1)>>
    /\ container[Len(container)] = ShowMoreButton(1)

\* C9: invoking showMoreResults in a state where currentlyDisplayedResults
\* equals allResults.length changes nothing: no card is added, the cursor is
\* unchanged and no show-more affordance exists afterwards.
C9_ShowMoreAtEndIsNoOp ==
    currentlyDisplayedResults = Len(allResults) =>
        LET shown == showMoreResults(container, allResults, currentlyDisplayedResults)
        IN  /\ shown.container = container
            /\ shown.currentlyDisplayedResults = currentlyDisplayedResults
            /\ ShowMoreButtons(shown.container) = <<>>

C9_Witness ==
    /\ currentlyDisplayedResults = Len(allResults)
    /\ Len(allResults) = 6
    /\ Len(Cards(container)) = 6
    /\ session = "completed"

\* C10 as stated: a submission whose trimmed query is non-empty and whose two
\* category checkboxes are unchecked is rejected with the search-type message,
\* whatever the connection state, and emits no event.
C10_NoTypeRejectedWhateverConnection ==
    [][ (Submit /\ Trim(inputValue) # <<>> /\ ~videosChecked /\ ~websitesChecked)
            => /\ status' = Status(NoSearchTypeMessage, "error")
               /\ outbox' = outbox ]_vars

\* C10 amended: a submission whose trimmed query is non-empty and whose two
\* category checkboxes are unchecked emits no event; it is rejected with the
\* search-type message when the channel is connected, and with the
\* not-connected message when it is not.
C10_NoTypeRejectedWhenConnected ==
    [][ (Submit /\ Trim(inputValue) # <<>> /\ ~videosChecked /\ ~websitesChecked)
            => /\ status' = Status(IF connected THEN NoSearchTypeMessage
                                   ELSE NotConnectedMessage, "error")
               /\ outbox' = outbox ]_vars

C10_Witness ==
    /\ status = Status(NoSearchTypeMessage, "error")
    /\ connected
    /\ Trim(inputValue) # <<>>
    /\ ~videosChecked /\ ~websitesChecked
    /\ outbox = <<>>

\* The loading indicators of the results area.
Loaders(nodes) == SelectSeq(nodes, LAMBDA node : node.id = "loader")

\* C11: after search_error or search_completed is handled, from every
\* reachable prior state, the loading indicator is absent from the results
\* area and the submit control is enabled.
C11_TerminalEventLeavesResubmittable ==
    [][ (SessionSearchCompleted \/ SessionSearchError) =>
            /\ Loaders(container') = <<>>
            /\ ~disabled' ]_vars

C11_Witness ==
    /\ session \in {"completed", "errored"}
    /\ events.total = 0
    /\ container = <<>>
    /\ ~disabled
    /\ connected

\* The provider families in the order of the claim, each with its patterns.
Families ==
    << [provider |-> "youtube", patterns |-> youtubePatterns],
       [provider |-> "vimeo", patterns |-> vimeoPatterns],
       [provider |-> "dailymotion", patterns |-> dailymotionPatterns] >>

PatternMatches(url, pattern) == MatchGroup(url, pattern) # <<>>

MatchingPatterns(url, family) ==
    {k \in DOMAIN family.patterns : PatternMatches(url, family.patterns[k])}

MatchingFamilies(url) ==
    {f \in DOMAIN Families : MatchingPatterns(url, Families[f]) # {}}

Least(S) == CHOOSE x \in S : \A y \in S : x <= y

\* The fragment of the first matching family, built from the capture of that
\* family's first matching pattern.
FirstFamilyFragment(url) ==
    LET family == Families[Least(MatchingFamilies(url))]
        pattern == family.patterns[Least(MatchingPatterns(url, family))]
    IN  Iframe(family.provider, MatchGroup(url, pattern))

\* The URLs of the cards of the results area.
CardUrls == {container[i].result.url :
                i \in {j \in DOMAIN container : container[j].className = "result"}}

\* C12 as stated: for every input URL createVideoEmbed returns the fragment of
\* the first family, in the order YouTube, Vimeo, Dailymotion, that has a
\* matching pattern, built from the id captured by that family's first
\* matching pattern, or null when no pattern of any family matches.
C12_ResolverFragmentOrNull ==
    \A url \in CardUrls :
        createVideoEmbed(url) =
            IF MatchingFamilies(url) # {} THEN FirstFamilyFragment(url) ELSE Null

\* C12 amended: as stated for every non-empty URL; for the empty URL
\* createVideoEmbed returns the empty string, not null.  The watch control
\* shows the fragment exactly as resolved.
C12_ResolverFragmentNullOrEmpty ==
    /\ \A url \in CardUrls :
           createVideoEmbed(url) =
               IF MatchingFamilies(url) # {} THEN FirstFamilyFragment(url)
               ELSE IF url = <<>> THEN EmptyString ELSE Null
    /\ \A i \in DOMAIN container :
           (container[i].className = "result" /\ container[i].display = "block")
               => container[i].innerHTML =
                      EmbedHtml(FirstFamilyFragment(container[i].result.url))

\* A revealed YouTube embed of a URL that a Vimeo pattern matches too.
C12_Witness ==
    \E i \in DOMAIN container :
        /\ container[i].className = "result"
        /\ container[i].display = "block"
        /\ container[i].innerHTML.embed = Iframe("youtube", <<"z">>)
        /\ Cardinality(MatchingFamilies(container[i].result.url)) = 2

IsPrefix(s, t) == Len(s) <= Len(t) /\ SubSeq(t, 1, Len(s)) = s

\* C13: every step that is not the handling of a search_started leaves the
\* previous allResults as a prefix of the new allResults, and adds at most one
\* element, at the end.
C13_AccumulatorAppendOnly ==
    [][ ~SessionSearchStarted =>
            /\ IsPrefix(allResults, allResults')
            /\ Len(allResults') <= Len(allResults) + 1 ]_vars

C13_Witness ==
    /\ session = "searching"
    /\ Len(allResults) = 4
    /\ allResults[1].type = "video"
    /\ allResults[2].type = "website"
    /\ allResults[3].type = "image"
    /\ allResults[4].type = "video"

\* C14 as stated: while the session is searching the submit control is
\* disabled.
C14_DisabledWhileSearching == session = "searching" => disabled

\* C14 amended: search_started disables the submit control; while the session
\* stays searching, every step other than a connect keeps it disabled
\* (disconnect and new_result included), and a connect enables it.
C14_DisabledWhileSearchingUntilReconnect ==
    [][ /\ SessionSearchStarted => disabled'
        /\ (session = "searching" /\ session' = "searching" /\ disabled /\ ~Connect)
               => disabled'
        /\ (session = "searching" /\ Connect)
               => (session' = "searching" /\ ~disabled') ]_vars

\* A searching session whose submit control a reconnection has enabled, with
\* results still arriving.
C14_Witness ==
    /\ session = "searching"
    /\ connected
    /\ ~disabled
    /\ status = Status("Connected to server", "success")
    /\ events.total >= 1

\* C15: for as long as the session is searching, the loading indicator shown
\* by search_started is present in the results area.
C15_LoaderPresentWhileSearching ==
    session = "searching" => Loaders(container) # <<>>

\* C16: the arrival of a new_result leaves every revealed embed revealed, with
\* the same content.
C16_NewResultKeepsEmbedRevealed ==
    [][ CardNewResult =>
            \A i \in DOMAIN Cards(container) :
                Cards(container)[i].display = "block" =>
                    /\ i \in DOMAIN Cards(container')
                    /\ Cards(container')[i].display = "block"
                    /\ Cards(container')[i].innerHTML = Cards(container)[i].innerHTML ]_vars

\* C17: a search_started handled while a session is searching resets the
\* accumulator, the counters and the cursor; a new_result that carries a result
\* appends it to allResults, counts it by its type and re-renders the first
\* page, whichever query the event names.
C17_NewResultEffectIgnoresQuery ==
    [][ /\ (SessionSearchStarted /\ session = "searching") =>
               /\ allResults' = <<>>
               /\ totalResults' = 0 /\ videoResults' = 0 /\ websiteResults' = 0
               /\ currentlyDisplayedResults' = 0
        /\ \A r \in SessionResults \ {NoResult}, q \in Queries :
               NewResult([result |-> r, query |-> q]) =>
                   /\ allResults' = Append(allResults, r)
                   /\ totalResults' = totalResults + 1
                   /\ videoResults' = videoResults + (IF r.type = "video" THEN 1 ELSE 0)
                   /\ websiteResults' = websiteResults + (IF r.type = "website" THEN 1 ELSE 0)
                   /\ currentlyDisplayedResults' = Min(resultsPerPage, Len(allResults) + 1) ]_vars

\* A session announced for "cats" that has accepted a result naming "dogs".
C17_Witness ==
    /\ session = "searching"
    /\ status = Status("Searching for cats...", "info")
    /\ events.withResult >= 2
    /\ totalResults = events.withResult
    /\ stats # NoStats
    /\ stats[1].query = "dogs"

\* C18: a submission that a guard rejects sets the status line to the message
\* of the first failing guard, in the order empty query, not connected, no
\* category selected, and leaves allResults, the three counters,
\* currentlyDisplayedResults, the results area with its cards and loading
\* indicator, and the submit control's enabled state unchanged.
C18_RejectedSubmissionChangesOnlyStatus ==
    [][ LET emptyQuery == Trim(inputValue) = <<>>
            noCategory == ~videosChecked /\ ~websitesChecked
        IN  (Submit /\ (emptyQuery \/ ~connected \/ noCategory)) =>
                /\ status' = Status(IF emptyQuery THEN EmptyQueryMessage
                                    ELSE IF ~connected THEN NotConnectedMessage
                                    ELSE NoSearchTypeMessage, "error")
                /\ allResults' = allResults
                /\ totalResults' = totalResults
                /\ videoResults' = videoResults
                /\ websiteResults' = websiteResults
                /\ currentlyDisplayedResults' = currentlyDisplayedResults
                /\ container' = container
                /\ disabled' = disabled ]_vars

\* A submission rejected for its blank query while the channel is down and no
\* category is ticked, with a result card rendered.
C18_Witness ==
    /\ status = Status(EmptyQueryMessage, "error")
    /\ inputValue = <<" ">>
    /\ ~connected
    /\ ~videosChecked /\ ~websitesChecked
    /\ Cards(container) # <<>>
    /\ totalResults = 1

\* The results rendered as cards, in document order.
RenderedResults ==
    [k \in 1..Len(Cards(container)) |-> Cards(container)[k].result]

\* C19: in every reachable state the cards of the results area render exactly
\* the first currentlyDisplayedResults elements of allResults, each once, in
\* arrival order.
C19_CardsAreRevealedPrefix ==
    RenderedResults = SubSeq(allResults, 1, currentlyDisplayedResults)

\* Eight results of both types, all revealed after a show-more invocation.
C19_Witness ==
    /\ Len(allResults) = 8
    /\ currentlyDisplayedResults = 8
    /\ Len(RenderedResults) = 8
    /\ RenderedResults[1].type # RenderedResults[2].type
    /\ RenderedResults[7].type # RenderedResults[8].type

\* C20: in every reachable state totalResults is the length of allResults,
\* videoResults the number of its elements of type 'video', websiteResults the
\* number of type 'website', and videoResults + websiteResults is at most
\* totalResults, with equality exactly when every accumulated result has type
\* 'video' or 'website'.
C20_CountersAgreeWithAccumulator ==
    /\ totalResults = Len(allResults)
    /\ videoResults = Count(allResults, "video")
    /\ websiteResults = Count(allResults, "website")
    /\ videoResults + websiteResults <= totalResults
    /\ (videoResults + websiteResults = totalResults)
           <=> \A k \in DOMAIN allResults : allResults[k].type \in {"video", "website"}

\* Results of a third type among videos and websites: the type counters sum
\* to less than the total.
C20_Witness ==
    /\ totalResults = 5
    /\ videoResults = 2
    /\ websiteResults = 1
    /\ allResults[5].type = "image"
    /\ events.total = 6

\* C21 as stated: connect, disconnect, search_completed and search_error leave
\* allResults, the three counters, currentlyDisplayedResults and the rendered
\* result cards unchanged, and only search_started, new_result and show-more
\* invocations modify any of them.
C21_OnlySessionEventsModifyResults ==
    [][ /\ (Connect \/ Disconnect \/ SessionSearchCompleted \/ SessionSearchError) =>
               /\ UNCHANGED <<allResults, countVars, currentlyDisplayedResults>>
               /\ Cards(container') = Cards(container)
        /\ ( \/ <<allResults, countVars, currentlyDisplayedResults>>'
                    # <<allResults, countVars, currentlyDisplayedResults>>
             \/ Cards(container') # Cards(container) )
               => (SessionSearchStarted \/ FrameNewResult \/ ShowMore) ]_vars

\* C21 amended: the four events leave all of them unchanged; allResults and
\* the counters are modified only by search_started and new_result, the cursor
\* and the sequence of results rendered as cards only by these and show-more
\* invocations; the content of a rendered card is modified, besides, only by
\* that card's watch control.
C21_TerminalAndChannelEventsKeepResults ==
    [][ /\ (Connect \/ Disconnect \/ SessionSearchCompleted \/ SessionSearchError) =>
               /\ UNCHANGED <<allResults, countVars, currentlyDisplayedResults>>
               /\ Cards(container') = Cards(container)
        /\ <<allResults, countVars>>' # <<allResults, countVars>>
               => (SessionSearchStarted \/ FrameNewResult)
        /\ ( \/ currentlyDisplayedResults' # currentlyDisplayedResults
             \/ RenderedResults' # RenderedResults )
               => (SessionSearchStarted \/ FrameNewResult \/ ShowMore)
        /\ Cards(container') # Cards(container)
               => (SessionSearchStarted \/ FrameNewResult \/ ShowMore \/ FrameWatchClick)
        /\ FrameWatchClick =>
               \E i \in DOMAIN Cards(container) :
                   \A k \in DOMAIN Cards(container) \ {i} :
                       Cards(container')[k] = Cards(container)[k] ]_vars

\* A completed session whose channel then went down: both pages of cards are
\* still rendered, the first card's embed still revealed.
C21_Witness ==
    /\ session = "completed"
    /\ ~connected
    /\ status = Status("Disconnected from server", "error")
    /\ Len(allResults) = 6
    /\ totalResults = 6
    /\ currentlyDisplayedResults = 6
    /\ Len(Cards(container)) = 6
    /\ Cards(container)[1].display = "block"

====
